---- MODULE Spec2Model ----
(***************************************************************************)
(* ConnectionsTree::Model (src/modules/connections-tree/model.cpp): the    *)
(* QAbstractItemModel adapter over the tree of TreeItem nodes.             *)
(*                                                                         *)
(* State: the root list m_treeItems, the registry m_rawPointers, the set   *)
(* m_expanded, the nodes' row fields and child lists, the strong           *)
(* references held outside the model, and the notifications emitted by the *)
(* last call.                                                              *)
(***************************************************************************)
EXTENDS Integers, Sequences, FiniteSets, TLC

VARIABLES
    m_treeItems,   \* QList<QSharedPointer<TreeItem>>: the root list
    m_rawPointers, \* registry: the nodes that have an entry with a live weak handle
    m_expanded,    \* QSet<QByteArray>: original names tracked as expanded
    srow,          \* TreeItem::row() of every server node (set by setRow)
    childs,        \* the loaded children of every node, in row order
    held,          \* server nodes a caller outside the model holds a QSharedPointer to
    call,          \* the last call made on the model and its arguments
    emitted        \* what the last call emitted, in order

vars == <<m_treeItems, m_rawPointers, m_expanded, srow, childs, held, call, emitted>>

(***************************************************************************)
(* Bounds of the model.                                                    *)
(***************************************************************************)
MaxRoot == 3       \* longest root list explored by SpecRoot
MaxTreeRoot == 2   \* longest root list explored by Spec

(***************************************************************************)
(* The node universe: three servers; S1 has two databases, the databases   *)
(* have namespaces, N1 has a nested namespace whose name differs from its  *)
(* own in case only.  S2 and S3 load no children.  A node's identity is    *)
(* its name here.                                                          *)
(***************************************************************************)
NULL == "NULL"

Servers == {"S1", "S2", "S3"}

Nodes == Servers \cup {"D1", "D2", "N1", "N3", "N4"}

\* The children a node has once they are fetched, in row order.  A server
\* fetches its databases; a database fetches its keys and comes back with
\* its whole tree of namespaces.
Fetched(n) ==
    CASE n = "S1" -> <<"D1", "D2">>
      [] n = "D1" -> <<"N1">>
      [] n = "N1" -> <<"N3">>
      [] n = "D2" -> <<"N4">>
      [] OTHER -> <<>>

\* TreeItem::getType()
getType(n) ==
    CASE n \in Servers -> "server"
      [] n \in {"D1", "D2"} -> "database"
      [] OTHER -> "namespace"

\* TreeItem::getName(): the original name
getName(n) ==
    CASE n \in {"N1", "N4"} -> "users"
      [] n = "N3" -> "Users"
      [] n \in {"D1", "D2"} -> "db0"
      [] OTHER -> n

\* TreeItem::getIconUrl()
getIconUrl(n) == <<"icon", getType(n)>>

\* TreeItem::isEnabled(): a namespace is never locked, a server or database
\* is enabled while it is not busy loading (it has its children or none to get)
isEnabled(n, ch) == getType(n) = "namespace" \/ ch[n] # <<>> \/ Fetched(n) = <<>>

\* TreeItem::canFetchMore(): the node has children it has not fetched yet
itemCanFetchMore(n, ch) == ch[n] = <<>> /\ Fetched(n) # <<>>

\* TreeItem::metadata(key)
metadata(n, key) == <<key, n>>

\* QString::toLower on the names of the universe
toLower(s) == IF s = "Users" THEN "users" ELSE s

\* QString::compare(a, b, cs) == 0
compareEq(a, b, caseSensitive) ==
    IF caseSensitive THEN a = b ELSE toLower(a) = toLower(b)

Range(s) == {s[i] : i \in 1..Len(s)}

\* TreeItem::parent(): the weak back-reference, NULL for a server
parentItem(n) ==
    IF \E p \in Nodes : n \in Range(Fetched(p))
    THEN CHOOSE p \in Nodes : n \in Range(Fetched(p))
    ELSE NULL

\* TreeItem::row() of a node
row(n, sr) ==
    IF n \in Servers THEN sr[n]
    ELSE LET sib == Fetched(parentItem(n))
         IN (CHOOSE i \in 1..Len(sib) : sib[i] = n) - 1

\* The nodes a strong reference keeps alive: the servers held outside or in
\* the root list, and every node in a child list.
Alive(items, hld, ch) ==
    hld \cup Range(items) \cup UNION {Range(ch[n]) : n \in Nodes}

RECURSIVE Fetch(_, _)
\* the child lists once node n has fetched
Fetch(n, ch) ==
    LET own == [ch EXCEPT ![n] = Fetched(n)]
        RECURSIVE below(_, _)
        below(i, c) == IF i > Len(Fetched(n)) THEN c
                       ELSE below(i + 1, Fetch(Fetched(n)[i], c))
    IN IF getType(n) = "server" THEN own ELSE below(1, own)

RECURSIVE Subtree(_, _)
\* n and the nodes below it in the child lists ch
Subtree(n, ch) == {n} \cup UNION {Subtree(ch[n][i], ch) : i \in 1..Len(ch[n])}

(***************************************************************************)
(* QModelIndex                                                             *)
(***************************************************************************)
createIndex(r, c, n) == [row |-> r, column |-> c, node |-> n]

QModelIndex == createIndex(-1, -1, NULL)      \* the invalid index

isValid(idx) == idx.row >= 0 /\ idx.column >= 0 /\ idx.node # NULL

\* The part of the state the queries read: root list, child lists, outside
\* references and server rows, with the nodes that are alive in it.
World(items, ch, hld, sr) ==
    [items |-> items, ch |-> ch, hld |-> hld, sr |-> sr, alive |-> Alive(items, hld, ch)]

Now == World(m_treeItems, childs, held, srow)

\* a pointer test that does not see that the node is gone
weakDangling(n, w) == n # NULL

\* QWeakPointer<TreeItem>::operator bool / toStrongRef(): non-null and the
\* node is still owned by someone
weakLive(n, w) == n # NULL /\ n \in w.alive

\* Model::getItemFromIndex (model.h): the registry entry of the index's
\* internal pointer, resolved through its weak handle; nullptr for an
\* invalid index, a node without entry, or a node that is gone.
getItemFromIndex(idx, w, rg) ==
    IF ~isValid(idx) THEN NULL
    ELSE IF idx.node \in rg /\ weakLive(idx.node, w) THEN idx.node
    ELSE NULL

\* Model::columnCount (model.h)
columnCount == 1

\* Model::rowCount
rowCount(parent, w, rg) ==
    LET parentNode == getItemFromIndex(parent, w, rg)
    IN IF parentNode = NULL THEN Len(w.items)
       ELSE IF parent.column > 0 THEN 0
       ELSE Len(w.ch[parentNode])

\* QAbstractItemModel::hasIndex
hasIndex(r, c, parent, w, rg) ==
    /\ r >= 0
    /\ c >= 0
    /\ r < rowCount(parent, w, rg)
    /\ c < columnCount

\* QAbstractItemModel::hasChildren
hasChildren(parent, w, rg) == rowCount(parent, w, rg) > 0 /\ columnCount > 0

\* Model::index: the index and the registry after the call
index(r, c, parent, w, rg) ==
    IF ~hasIndex(r, c, parent, w, rg) THEN [idx |-> QModelIndex, reg |-> rg]
    ELSE LET parentNode == getItemFromIndex(parent, w, rg)
             childItem ==
                 IF parentNode # NULL
                 THEN (IF r < Len(w.ch[parentNode]) THEN w.ch[parentNode][r + 1] ELSE NULL)
                 ELSE IF r < Len(w.items) THEN w.items[r + 1]
                 ELSE NULL
         IN IF childItem = NULL THEN [idx |-> QModelIndex, reg |-> rg]
            ELSE [idx |-> createIndex(r, c, childItem), reg |-> rg \cup {childItem}]

\* Model::parent: the index and the registry after the call
parent(idx, w, rg) ==
    LET childItem == getItemFromIndex(idx, w, rg)
    IN IF childItem = NULL THEN [idx |-> QModelIndex, reg |-> rg]
       ELSE LET p == parentItem(childItem)
            IN IF ~weakLive(p, w) THEN [idx |-> QModelIndex, reg |-> rg]
               ELSE [idx |-> createIndex(row(p, w.sr), 0, p), reg |-> rg \cup {p}]

\* Model::getIndexFromItem
getIndexFromItem(item, w) ==
    IF weakLive(item, w) THEN createIndex(row(item, w.sr), 0, item)
    ELSE QModelIndex

\* Model::data for the roles of the model; "" is the empty QVariant
data(idx, role, w, rg) ==
    LET item == getItemFromIndex(idx, w, rg)
    IN IF item = NULL THEN ""
       ELSE CASE role = "itemName" -> item
              [] role = "DecorationRole" -> getIconUrl(item)
              [] role = "itemType" -> getType(item)
              [] role = "itemOriginalName" -> getName(item)
              [] OTHER -> ""

\* a flags that does not test its item for nullptr
flagsUnchecked(idx, w, rg) == {"ItemIsSelectable"}

\* Model::flags
flags(idx, w, rg) ==
    LET item == getItemFromIndex(idx, w, rg)
    IN IF item = NULL THEN {}
       ELSE {"ItemIsSelectable"} \cup (IF isEnabled(item, w.ch) THEN {"ItemIsEnabled"} ELSE {})

\* Model::canFetchMore
canFetchMore(idx, w, rg) ==
    LET i == getItemFromIndex(idx, w, rg)
    IN i # NULL /\ itemCanFetchMore(i, w.ch)

\* Model::fetchMore: the node whose fetchMore() is called, NULL for none
fetchMore(idx, w, rg) == getItemFromIndex(idx, w, rg)

\* Model::getMetadata
getMetadata(idx, metaKey, w, rg) ==
    LET item == getItemFromIndex(idx, w, rg)
    IN IF item = NULL THEN "" ELSE metadata(item, metaKey)

\* Model::setMetadata: the node whose setMetadata() is called, NULL for none
setMetadata(idx, metaKey, w, rg) == getItemFromIndex(idx, w, rg)

\* Model::sendEvent: the node whose handleEvent() is called, NULL for none
sendEvent(idx, w, rg) == getItemFromIndex(idx, w, rg)

\* a setExpanded that does not look at the type of the node
expandedInsertAny(idx, w, rg, expanded) ==
    LET item == getItemFromIndex(idx, w, rg)
    IN IF item = NULL THEN expanded ELSE expanded \cup {getName(item)}

\* m_expanded after Model::setExpanded(index)
expandedInsert(idx, w, rg, expanded) ==
    LET item == getItemFromIndex(idx, w, rg)
    IN IF item = NULL \/ getType(item) # "namespace" THEN expanded
       ELSE expanded \cup {getName(item)}

\* m_expanded after Model::setCollapsed(index)
expandedRemove(idx, w, rg, expanded) ==
    LET item == getItemFromIndex(idx, w, rg)
    IN IF item = NULL \/ getType(item) # "namespace" THEN expanded
       ELSE expanded \ {getName(item)}

RECURSIVE match(_, _, _, _, _, _)
RECURSIVE matchRows(_, _, _, _, _, _, _, _, _)
\* match without Qt::MatchRecursive
matchFlat(start, value, caseSensitive, recurse, w, rg) ==
    LET pr == parent(start, w, rg)
    IN matchRows(start.row, rowCount(pr.idx, w, pr.reg), start.column, pr.idx,
                 value, caseSensitive, FALSE, w, pr.reg)

\* QAbstractItemModel::match(start, itemOriginalName, value, -1, flags) with
\* flags MatchFixedString, and MatchCaseSensitive / MatchRecursive as given,
\* without MatchWrap: the hits in order and the registry after the call.
match(start, value, caseSensitive, recurse, w, rg) ==
    LET pr == parent(start, w, rg)
    IN matchRows(start.row, rowCount(pr.idx, w, pr.reg), start.column, pr.idx,
                 value, caseSensitive, recurse, w, pr.reg)

\* the hit that the index here is, if its original name compares equal
matchHere(here, value, caseSensitive, w) ==
    IF compareEq(data(here.idx, "itemOriginalName", w, here.reg), value, caseSensitive)
    THEN <<here.idx>> ELSE <<>>

\* the hits below the index here (the recursion of match into the hierarchy)
matchBelow(here, column, value, caseSensitive, recurse, w) ==
    IF recurse /\ hasChildren(here.idx, w, here.reg)
    THEN LET first == index(0, column, here.idx, w, here.reg)
         IN match(first.idx, value, caseSensitive, recurse, w, first.reg)
    ELSE [hits |-> <<>>, reg |-> here.reg]

\* the hits found so far, followed by those of the rows after r
matchOn(found, r, to, column, p, value, caseSensitive, recurse, w) ==
    [matchRows(r + 1, to, column, p, value, caseSensitive, recurse, w, found.reg)
        EXCEPT !.hits = found.hits \o @]

\* the hits at row r under p and below it
matchAt(here, column, value, caseSensitive, recurse, w) ==
    IF ~isValid(here.idx) THEN [hits |-> <<>>, reg |-> here.reg]
    ELSE [matchBelow(here, column, value, caseSensitive, recurse, w)
             EXCEPT !.hits = matchHere(here, value, caseSensitive, w) \o @]

\* the loop of match over the rows r..to-1 under p
matchRows(r, to, column, p, value, caseSensitive, recurse, w, rg) ==
    IF r >= to THEN [hits |-> <<>>, reg |-> rg]
    ELSE matchOn(matchAt(index(r, column, p, w, rg), column, value, caseSensitive, recurse, w),
                 r, to, column, p, value, caseSensitive, recurse, w)

(***************************************************************************)
(* What a call leaves behind for the observer: the call and its arguments, *)
(* and the notifications (signals) it emitted, in order.  "push_back",    *)
(* "removeAll" and "clear" mark the place of the call that changes         *)
(* m_treeItems or m_expanded among the notifications.                      *)
(***************************************************************************)
Call(name, node, setting) == [name |-> name, node |-> node, setting |-> setting]

Ev(t, idx, first, last) == [t |-> t, idx |-> idx, first |-> first, last |-> last]

Mark(t) == Ev(t, QModelIndex, 0, 0)

\* the servers of w that some strong reference still reaches, with all
\* that hangs below them
Owned(items, hld, ch) == UNION {Subtree(s, ch) : s \in hld \cup Range(items)}

\* the child lists once the nodes no owner reaches are destroyed
Destroy(items, hld, ch) ==
    [n \in Nodes |-> IF n \in Owned(items, hld, ch) THEN ch[n] ELSE <<>>]

\* the registry entries whose weak handle is still live
LiveEntries(rg, items, hld, ch) == rg \cap Alive(items, hld, Destroy(items, hld, ch))

\* QList::removeAll
RECURSIVE removeAll(_, _)
removeAll(list, x) ==
    IF list = <<>> THEN <<>>
    ELSE IF Head(list) = x THEN removeAll(Tail(list), x)
    ELSE <<Head(list)>> \o removeAll(Tail(list), x)

Init ==
    /\ m_treeItems = <<>>
    /\ m_rawPointers = {}
    /\ m_expanded = {}
    /\ srow = [s \in Servers |-> 0]
    /\ childs = [n \in Nodes |-> <<>>]
    /\ held = Servers
    /\ call = Call("Model", NULL, "unset")
    /\ emitted = <<>>

\* Model::addRootItem(serverItem); the caller holds the shared pointer
addRootItem(s) ==
    /\ s \in held \cup {NULL}
    /\ call' = Call("addRootItem", s, "unset")
    /\ IF s = NULL
       THEN /\ emitted' = <<>>
            /\ UNCHANGED <<m_treeItems, srow>>
       ELSE LET insertIndex == Len(m_treeItems)
            IN /\ emitted' = << Ev("beginInsertRows", QModelIndex, insertIndex, insertIndex),
                                Mark("push_back"),
                                Mark("endInsertRows") >>
               /\ srow' = [srow EXCEPT ![s] = insertIndex]
               /\ m_treeItems' = Append(m_treeItems, s)
    /\ UNCHANGED <<m_rawPointers, m_expanded, childs, held>>

\* Model::removeRootItem(item); the caller holds the shared pointer
removeRootItem(s) ==
    /\ s \in held \cup {NULL}
    /\ call' = Call("removeRootItem", s, "unset")
    /\ IF s = NULL
       THEN /\ emitted' = <<>>
            /\ UNCHANGED m_treeItems
       ELSE /\ emitted' = << Ev("beginRemoveRows", QModelIndex, srow[s], srow[s]),
                             Mark("removeAll"),
                             Mark("endRemoveRows") >>
            /\ m_treeItems' = removeAll(m_treeItems, s)
    /\ UNCHANGED <<m_rawPointers, m_expanded, srow, childs, held>>

\* The caller drops its QSharedPointer to a server s that the root list does
\* not own: s, and all below it, is destroyed.
release(s) ==
    /\ s \in held
    /\ s \notin Range(m_treeItems)
    /\ held' = held \ {s}
    /\ childs' = Destroy(m_treeItems, held', childs)
    /\ m_rawPointers' = LiveEntries(m_rawPointers, m_treeItems, held', childs)
    /\ call' = Call("release", s, "unset")
    /\ emitted' = <<>>
    /\ UNCHANGED <<m_treeItems, m_expanded, srow>>

\* Model::onItemChanged(item): the notifications emitted
onItemChanged(item, w) ==
    IF ~weakLive(item, w) THEN <<>>
    ELSE LET idx == getIndexFromItem(item, w)
         IN IF ~isValid(idx) \/ Len(w.ch[item]) = 0 THEN <<>>
            ELSE << Ev("dataChanged", idx, 0, 0) >>

\* the orders in which foreach may run over the QSet names
Orders(names) ==
    {o \in [1..Cardinality(names) -> names] :
        \A i, j \in DOMAIN o : i # j => o[i] # o[j]}

\* the expand requests for the indexes of hits, in order
expands(hits) == [i \in 1..Len(hits) |-> Ev("expand", hits[i], 0, 0)]

RECURSIVE restoreLoop(_, _, _, _)
\* the foreach of Model::restoreOpenedNamespaces over the names in order:
\* the expand requests emitted and the registry after it
restoreLoop(order, searchFrom, w, rg) ==
    IF order = <<>> THEN [out |-> <<>>, reg |-> rg]
    ELSE LET matches == match(searchFrom, Head(order), TRUE, TRUE, w, rg)
         IN [restoreLoop(Tail(order), searchFrom, w, matches.reg)
                EXCEPT !.out = expands(matches.hits) \o @]

\* Model::restoreOpenedNamespaces(dbIndex), foreach running in the given
\* order: what it emits and the registry after it; m_expanded is empty then
restoreOpenedNamespaces(dbIndex, order, w, rg) ==
    LET searchFrom == index(0, 0, dbIndex, w, rg)
    IN [restoreLoop(order, searchFrom.idx, w, searchFrom.reg)
           EXCEPT !.out = <<Mark("clear")>> \o @]

\* What QSettings may hold for app/reopenNamespacesOnReload
Settings == {"true", "false", "unset"}

\* a read of the setting that always yields the default
settingsDefault(stored, default) == default

\* QSettings::value(key, default).toBool()
settingsValue(stored, default) ==
    IF stored = "unset" THEN default ELSE stored = "true"

\* Model::onItemChildsLoaded(item) with app/reopenNamespacesOnReload as
\* stored: what it emits, the registry and m_expanded after it
onItemChildsLoaded(item, stored, order, w, rg, expanded) ==
    IF ~weakLive(item, w) THEN [out |-> <<>>, reg |-> rg, expanded |-> expanded]
    ELSE LET idx == getIndexFromItem(item, w)
             ins == << Ev("beginInsertRows", idx, 0, Len(w.ch[item]) - 1),
                       Mark("endInsertRows") >>
         IN IF ~isValid(idx) THEN [out |-> <<>>, reg |-> rg, expanded |-> expanded]
            ELSE IF getType(item) = "database"
            THEN IF settingsValue(stored, TRUE)
                 THEN LET r == restoreOpenedNamespaces(idx, order, w, rg)
                      IN [out |-> ins \o <<Ev("expand", idx, 0, 0)>> \o r.out,
                          reg |-> r.reg,
                          expanded |-> {}]
                 ELSE [out |-> ins \o <<Ev("expand", idx, 0, 0), Mark("clear")>>,
                       reg |-> rg, expanded |-> {}]
            ELSE [out |-> ins, reg |-> rg, expanded |-> expanded]

\* Model::onItemChildsUnloaded(item): the notifications emitted
onItemChildsUnloaded(item, w) ==
    IF ~weakLive(item, w) THEN <<>>
    ELSE LET idx == getIndexFromItem(item, w)
         IN IF ~isValid(idx) THEN <<>>
            ELSE << Ev("beginRemoveRows", idx, 0, Len(w.ch[item]) - 1),
                    Mark("endRemoveRows") >>

\* the nodes that hang in the tree of the root list
Attached == UNION {Subtree(s, childs) : s \in Range(m_treeItems)}

\* the server nodes that have been destroyed
Gone == Servers \ Alive(m_treeItems, held, childs)

\* Node n emits itemChanged(weak n): a node of the tree, or a server that is
\* gone by the time the signal is handled (its weak pointer is null then).
itemChanged(n) ==
    /\ n \in Attached \cup Gone
    /\ call' = Call("itemChanged", n, "unset")
    /\ emitted' = onItemChanged(n, Now)
    /\ UNCHANGED <<m_treeItems, m_rawPointers, m_expanded, srow, childs, held>>

\* what a handler leaves: its notifications, the registry and m_expanded
handled(r) ==
    /\ emitted' = r.out
    /\ m_rawPointers' = r.reg
    /\ m_expanded' = r.expanded

\* Server or database n finishes its fetch and emits itemChildsLoaded(weak n):
\* a node of the tree has its children by then, a server that is gone
\* leaves a null weak pointer.  The setting is read for a database only.
itemChildsLoaded(n, stored) ==
    /\ n \in Attached \cup Gone
    /\ getType(n) \in {"server", "database"}
    /\ stored = "unset" \/ getType(n) = "database"
    /\ n \in Attached => childs[n] = <<>>
    /\ childs' = (IF n \in Attached THEN Fetch(n, childs) ELSE childs)
    /\ LET w == World(m_treeItems, childs', held, srow)
       IN \E order \in Orders(m_expanded) :
            handled(onItemChildsLoaded(n, stored, order, w, m_rawPointers, m_expanded))
    /\ call' = Call("itemChildsLoaded", n, stored)
    /\ UNCHANGED <<m_treeItems, srow, held>>

\* Node n emits itemChildsUnloaded(weak n) and then drops its children.
itemChildsUnloaded(n) ==
    /\ n \in Attached \cup Gone
    /\ call' = Call("itemChildsUnloaded", n, "unset")
    /\ emitted' = onItemChildsUnloaded(n, Now)
    /\ LET ch == IF n \in Attached THEN [childs EXCEPT ![n] = <<>>] ELSE childs
       IN /\ childs' = Destroy(m_treeItems, held, ch)
          /\ m_rawPointers' = LiveEntries(m_rawPointers, m_treeItems, held, ch)
    /\ UNCHANGED <<m_treeItems, m_expanded, srow, held>>

\* The indexes a consumer may pass in: the invalid index, and an index of
\* any node, at the row the node reports.
Indexes == {QModelIndex} \cup {createIndex(row(n, srow), 0, n) : n \in Nodes}

RECURSIVE walk(_, _, _, _)
\* The consumer (a view) asks for index(r, 0, p) of the rows r.. of p and of
\* all rows below them: the registry after it.
walk(p, r, w, rg) ==
    IF r >= rowCount(p, w, rg) THEN rg
    ELSE LET i == index(r, 0, p, w, rg)
             below == IF isValid(i.idx) THEN walk(i.idx, 0, w, i.reg) ELSE i.reg
         IN walk(p, r + 1, w, below)

\* The view walks the whole tree from the root with Model::index.
viewWalk ==
    /\ m_rawPointers' = walk(QModelIndex, 0, Now, m_rawPointers)
    /\ call' = Call("index", NULL, "unset")
    /\ emitted' = <<>>
    /\ UNCHANGED <<m_treeItems, m_expanded, srow, childs, held>>

\* Model::setExpanded(index)
setExpanded(idx) ==
    /\ idx \in Indexes
    /\ m_expanded' = expandedInsert(idx, Now, m_rawPointers, m_expanded)
    /\ call' = Call("setExpanded", idx.node, "unset")
    /\ emitted' = <<>>
    /\ UNCHANGED <<m_treeItems, m_rawPointers, srow, childs, held>>

\* Model::setCollapsed(index)
setCollapsed(idx) ==
    /\ idx \in Indexes
    /\ m_expanded' = expandedRemove(idx, Now, m_rawPointers, m_expanded)
    /\ call' = Call("setCollapsed", idx.node, "unset")
    /\ emitted' = <<>>
    /\ UNCHANGED <<m_treeItems, m_rawPointers, srow, childs, held>>

\* The view asks for the index of row r under p with Model::index.
viewIndex(r, p) ==
    /\ p \in Indexes
    /\ m_rawPointers' = index(r, 0, p, Now, m_rawPointers).reg
    /\ call' = Call("index", p.node, "unset")
    /\ emitted' = <<>>
    /\ UNCHANGED <<m_treeItems, m_expanded, srow, childs, held>>

\* Root list calls alone, over all three servers.
NextRoot ==
    \/ \E s \in Servers \cup {NULL} : Len(m_treeItems) < MaxRoot /\ addRootItem(s)
    \/ \E s \in Servers \cup {NULL} : removeRootItem(s)
    \/ \E s \in Servers : release(s)

SpecRoot == Init /\ [][NextRoot]_vars

\* The servers and nodes Spec works with: S3 stays outside the model, and
\* S1, the server with a tree below it, is the one its caller lets go of.
\* The calls with a null pointer are left to SpecRoot.
TreeServers == Servers \ {"S3"}

ReleasedServers == {"S1"}

TreeNodes == Nodes \ {"S3"}

\* the indexes of the namespace nodes, which the view expands
NamespaceIndexes == {i \in Indexes : i.node # NULL /\ getType(i.node) = "namespace"}

Next ==
    \/ \E s \in TreeServers : Len(m_treeItems) < MaxTreeRoot /\ addRootItem(s)
    \/ \E s \in TreeServers : removeRootItem(s)
    \/ \E s \in ReleasedServers : release(s)
    \/ \E n \in TreeNodes : itemChanged(n)
    \/ \E n \in TreeNodes, stored \in Settings : itemChildsLoaded(n, stored)
    \/ \E n \in TreeNodes : itemChildsUnloaded(n)
    \/ viewWalk
    \/ \E idx \in NamespaceIndexes : setExpanded(idx)

Spec == Init /\ [][Next]_vars

\* The server and nodes SpecView works with: the tree of S1, shown by a view
\* that asks for one index at a time and expands and collapses what it shows.
ViewServers == {"S1"}

ViewNodes == Nodes \ {"S2", "S3"}

\* the rows the view asks for
ViewRows == 0..(MaxTreeRoot - 1)

NextView ==
    \/ \E s \in ViewServers : Len(m_treeItems) < MaxTreeRoot /\ addRootItem(s)
    \/ \E s \in ViewServers : removeRootItem(s)
    \/ \E n \in ViewNodes, stored \in Settings : itemChildsLoaded(n, stored)
    \/ \E n \in ViewNodes : itemChildsUnloaded(n)
    \/ \E r \in ViewRows, p \in Indexes : viewIndex(r, p)
    \/ \E idx \in Indexes : setExpanded(idx)
    \/ \E idx \in Indexes : setCollapsed(idx)

SpecView == Init /\ [][NextView]_vars

(***************************************************************************)
(* Properties of the root list (SpecRoot).                                 *)
(***************************************************************************)

\* the positions (rows) at which node n sits in the list
Positions(list, n) == {i - 1 : i \in {j \in 1..Len(list) : list[j] = n}}

\* the step just taken is the call name(node) with a non-null node
Called(name) == call'.name = name /\ call'.node # NULL

\* C1: after any sequence of addRootItem and removeRootItem calls every node
\* of the root list has row() equal to a position it has in the root list;
\* with root list [A, B], removeRootItem(A) leaves size() = 1 and B.row() = 0.
C1_RowIsPosition ==
    \A n \in Range(m_treeItems) : srow[n] \in Positions(m_treeItems, n)

\* C7: addRootItem(node), node non-null, called at size() = k: appends node as
\* the last element, sets node.row() to k, makes size() k+1, changes the row
\* of no node that was in the root list, and appends strictly between a
\* begin-insert and an end-insert that span rows [k, k] under the root.
C7_AddAppends ==
    [][Called("addRootItem") =>
        LET k == Len(m_treeItems)
        IN /\ m_treeItems' = Append(m_treeItems, call'.node)
           /\ srow'[call'.node] = k
           /\ Len(m_treeItems') = k + 1
           /\ \A n \in Range(m_treeItems) : srow'[n] = srow[n]
           /\ emitted' = << Ev("beginInsertRows", QModelIndex, k, k),
                            Mark("push_back"),
                            Mark("endInsertRows") >>]_vars

\* the list without its entry at position i (1-based)
Without(list, i) == [j \in 1..(Len(list) - 1) |-> IF j < i THEN list[j] ELSE list[j + 1]]

\* C8: removeRootItem(node) on a root list that contains node decreases
\* size() by exactly 1, removes that node and no other entry, and keeps the
\* remaining nodes in their previous relative order.
C8_RemoveTakesOne ==
    [][(Called("removeRootItem") /\ call'.node \in Range(m_treeItems)) =>
        /\ Len(m_treeItems') = Len(m_treeItems) - 1
        /\ \E i \in 1..Len(m_treeItems) :
             /\ m_treeItems[i] = call'.node
             /\ m_treeItems' = Without(m_treeItems, i)]_vars

\* C9: removeRootItem(node) of a node in the root list emits begin-remove and
\* end-remove spanning exactly [p, p], p a position of the node in the root
\* list at the time of the call, with the removal between the two.
C9_RemoveBracketsPosition ==
    [][(Called("removeRootItem") /\ call'.node \in Range(m_treeItems)) =>
        \E p \in Positions(m_treeItems, call'.node) :
            emitted' = << Ev("beginRemoveRows", QModelIndex, p, p),
                          Mark("removeAll"),
                          Mark("endRemoveRows") >>]_vars

\* C10: removeRootItem(node) of a node that is not in the root list is a
\* no-op: root list and rows unchanged, no begin-remove or end-remove emitted.
C10_RemoveAbsentIsNoOp ==
    [][(Called("removeRootItem") /\ call'.node \notin Range(m_treeItems)) =>
        /\ m_treeItems' = m_treeItems
        /\ srow' = srow
        /\ \A i \in 1..Len(emitted') :
             emitted'[i].t \notin {"beginRemoveRows", "endRemoveRows"}]_vars

\* the root rows a call announces: inserted rows count up, removed rows down
AnnouncedRootRows(out) ==
    LET b == SelectSeq(out, LAMBDA e : e.t \in {"beginInsertRows", "beginRemoveRows"}
                                         /\ e.idx = QModelIndex)
        rows(e) == IF e.t = "beginInsertRows" THEN e.last - e.first + 1
                   ELSE 0 - (e.last - e.first + 1)
    IN IF b = <<>> THEN 0 ELSE rows(b[1])

\* C20: after any sequence of completed addRootItem and removeRootItem calls
\* the root rows announced as inserted minus those announced as removed
\* equal size().  Both are 0 after construction, so this says that every
\* call changes size() by the rows it announces.
C20_AnnouncedRowsAreSize ==
    [][call'.name \in {"addRootItem", "removeRootItem"} =>
        Len(m_treeItems') - Len(m_treeItems) = AnnouncedRootRows(emitted')]_vars

(***************************************************************************)
(* Properties of the tree (Spec).                                          *)
(***************************************************************************)

RECURSIVE returned(_, _, _, _)
\* the indexes Model::index returns for the rows r.. of p and for all rows
\* below them
returned(p, r, w, rg) ==
    IF r >= rowCount(p, w, rg) THEN {}
    ELSE LET i == index(r, 0, p, w, rg)
         IN (IF isValid(i.idx) THEN {i.idx} \cup returned(i.idx, 0, w, i.reg) ELSE {})
            \cup returned(p, r + 1, w, rg)

\* C2: for every parent index P, the root or an index returned by index(),
\* and every row with 0 <= row < rowCount(P), parent(index(row, 0, P)) = P:
\* same row, column and node, or invalid when P is the root.  The registry
\* is the one left by the calls of index() that returned the indexes.
C2_ParentOfIndex ==
    LET rg == walk(QModelIndex, 0, Now, m_rawPointers)
    IN \A P \in {QModelIndex} \cup returned(QModelIndex, 0, Now, rg) :
         \A r \in 0..(rowCount(P, Now, rg) - 1) :
            parent(index(r, 0, P, Now, rg).idx, Now, rg).idx = P

\* the state after the step, as the queries read it
After == World(m_treeItems', childs', held', srow')

\* the indexes of node n: n at a row it has in its parent (or root list)
IndexesOf(n, items, sr) ==
    {createIndex(r, 0, n) : r \in IF n \in Servers THEN Positions(items, n) ELSE {row(n, sr)}}

\* C3: handling children-loaded for a live node N with C children emits
\* begin-insert for rows [0, C-1] under N's index, then the matching
\* end-insert with nothing in between, and rowCount(that index) = C right
\* after the end-insert.
C3_LoadedBracket ==
    [][(Called("itemChildsLoaded") /\ call'.node \in Attached) =>
        LET N == call'.node
            C == Len(childs'[N])
        IN /\ Len(emitted') >= 2
           /\ emitted'[1].t = "beginInsertRows"
           /\ emitted'[1].idx \in IndexesOf(N, m_treeItems', srow')
           /\ emitted'[1].first = 0
           /\ emitted'[1].last = C - 1
           /\ emitted'[2] = Mark("endInsertRows")
           /\ rowCount(emitted'[1].idx, After, m_rawPointers) = C]_vars

\* the positions of emitted at which "clear" stands
Cleared(out) == {i \in 1..Len(out) : out[i].t = "clear"}

\* the nodes an expand request of out[from..] names
ExpandedFrom(out, from) ==
    {out[i].idx.node : i \in {j \in from..Len(out) : out[j].t = "expand"}}

\* the step handles children-loaded for a live database node with the
\* restore option as given
LoadedDatabase(enabled) ==
    /\ Called("itemChildsLoaded")
    /\ call'.node \in Attached
    /\ getType(call'.node) = "database"
    /\ enabled <=> call'.setting \in {"true", "unset"}

C5_DisabledNoExpand ==
    [][LoadedDatabase(FALSE) =>
        /\ ExpandedFrom(emitted', 1) = {}
        /\ m_expanded' = {}]_vars

\* C5 as amended: with the restore option disabled the only expand request
\* issued is the one for the database node itself, and the tracked set is
\* empty afterwards.
C5_DisabledExpandsOnlyDatabase ==
    [][LoadedDatabase(FALSE) =>
        /\ ExpandedFrom(emitted', 1) = {call'.node}
        /\ Cardinality({i \in 1..Len(emitted') : emitted'[i].t = "expand"}) = 1
        /\ m_expanded' = {}]_vars

\* C5 happens: children-loaded was handled for the database D1, with its
\* namespaces N1 and N3 below it, with the option stored as disabled.
C5_Witness ==
    /\ call = Call("itemChildsLoaded", "D1", "false")
    /\ "D1" \in Attached
    /\ {"N1", "N3"} \subseteq Subtree("D1", childs)
    /\ Cleared(emitted) # {}

\* C6: a changed, children-loaded or children-unloaded signal that arrives
\* for a node destroyed in the meantime emits nothing (no notification, no
\* expand request) and leaves the root list and the tracked set unchanged.
C6_LateSignalDropped ==
    [][(/\ call'.name \in {"itemChanged", "itemChildsLoaded", "itemChildsUnloaded"}
        /\ call'.node \in Gone) =>
        /\ emitted' = <<>>
        /\ m_treeItems' = m_treeItems
        /\ m_expanded' = m_expanded]_vars

\* C6 happens: a children-loaded signal was handled for server S1 after S1
\* was destroyed, while the root list and the tracked set were not empty.
C6_Witness ==
    /\ call = Call("itemChildsLoaded", "S1", "unset")
    /\ "S1" \in Gone
    /\ m_treeItems # <<>>
    /\ m_expanded # {}

\* the roles and keys a consumer asks for
Roles == {"itemName", "DecorationRole", "itemType", "itemOriginalName"}

MetaKeys == {"key"}

\* the indexes of nodes that have been removed and destroyed
DeadIndexes == {idx \in Indexes : idx.node # NULL /\ idx.node \notin Now.alive}

\* C11: an index whose node has been removed and destroyed is treated exactly
\* like the invalid index by every operation: data and getMetadata return
\* empty, flags returns no flags, canFetchMore returns false, parent returns
\* the invalid index, and fetchMore, setMetadata, sendEvent, setExpanded and
\* setCollapsed reach no node and leave the tracked set as it is.
C11_DeadIndexIsNoNode ==
    LET w == Now IN
    \A idx \in DeadIndexes :
        /\ getItemFromIndex(idx, w, m_rawPointers)
              = getItemFromIndex(QModelIndex, w, m_rawPointers)
        /\ \A role \in Roles : data(idx, role, w, m_rawPointers) = ""
        /\ \A key \in MetaKeys : getMetadata(idx, key, w, m_rawPointers) = ""
        /\ flags(idx, w, m_rawPointers) = {}
        /\ ~canFetchMore(idx, w, m_rawPointers)
        /\ parent(idx, w, m_rawPointers) = [idx |-> QModelIndex, reg |-> m_rawPointers]
        /\ fetchMore(idx, w, m_rawPointers) = NULL
        /\ \A key \in MetaKeys : setMetadata(idx, key, w, m_rawPointers) = NULL
        /\ sendEvent(idx, w, m_rawPointers) = NULL
        /\ expandedInsert(idx, w, m_rawPointers, m_expanded) = m_expanded
        /\ expandedRemove(idx, w, m_rawPointers, m_expanded) = m_expanded

\* C11 happens: server S1 was handed out as an index (it was in the root
\* list with its children loaded), then removed and destroyed, while another
\* node is still in the root list and a name is tracked.
C11_Witness ==
    /\ call = Call("release", "S1", "unset")
    /\ createIndex(srow["S1"], 0, "S1") \in DeadIndexes
    /\ m_treeItems # <<>>
    /\ m_expanded # {}

\* the valid indexes whose node cannot be resolved: the node is destroyed,
\* or no index()/parent() call has given it a registry entry
UnresolvedIndexes ==
    {idx \in Indexes : isValid(idx) /\ getItemFromIndex(idx, Now, m_rawPointers) = NULL}

\* C12: for a non-root index whose node cannot be resolved (freed, stale or
\* never registered) rowCount returns 0 and index(row, column, thatIndex)
\* returns the invalid index for every row, also when the root list is not
\* empty.
C12_UnresolvedHasNoRows ==
    \A idx \in UnresolvedIndexes :
        /\ rowCount(idx, Now, m_rawPointers) = 0
        /\ \A r \in 0..MaxTreeRoot :
             index(r, 0, idx, Now, m_rawPointers).idx = QModelIndex

\* C13: handling children-unloaded for a live node N that has C children at
\* that moment emits begin-remove for rows [0, C-1] under N's index (C read
\* before any child is detached), then the matching end-remove, and after
\* the unload rowCount(index of N) = 0.
C13_UnloadedBracket ==
    [][(Called("itemChildsUnloaded") /\ call'.node \in Attached) =>
        LET N == call'.node
            C == Len(childs[N])
        IN /\ Len(emitted') = 2
           /\ emitted'[1].t = "beginRemoveRows"
           /\ emitted'[1].idx \in IndexesOf(N, m_treeItems', srow')
           /\ emitted'[1].first = 0
           /\ emitted'[1].last = C - 1
           /\ emitted'[2] = Mark("endRemoveRows")
           /\ rowCount(emitted'[1].idx, After, m_rawPointers') = 0]_vars

\* C15: handling a changed signal for node N emits exactly one data-changed
\* notification, covering only N's index, if N is alive and has at least
\* one child; if N is gone or has no children nothing is emitted.
C15_ChangedNotifiesOnce ==
    [][call'.name = "itemChanged" =>
        LET N == call'.node
        IN IF N \in Now.alive /\ Len(childs[N]) > 0
           THEN /\ Len(emitted') = 1
                /\ emitted'[1].t = "dataChanged"
                /\ emitted'[1].idx \in IndexesOf(N, m_treeItems, srow)
           ELSE emitted' = <<>>]_vars

\* the begin/end notifications of out, in order
Structural(out) ==
    SelectSeq(out, LAMBDA e : e.t \in {"beginInsertRows", "endInsertRows",
                                       "beginRemoveRows", "endRemoveRows"})

\* every begin of out is directly followed by its end
Paired(out) ==
    LET st == Structural(out)
    IN /\ Len(st) % 2 = 0
       /\ \A k \in 1..Len(st) : k % 2 = 1 =>
            \/ st[k].t = "beginInsertRows" /\ st[k + 1].t = "endInsertRows"
            \/ st[k].t = "beginRemoveRows" /\ st[k + 1].t = "endRemoveRows"

\* list after is list before with rows first..last newly inserted
InsertedRows(before, after, first, last) ==
    /\ 0 <= first /\ first <= last /\ first <= Len(before)
    /\ Len(after) = Len(before) + (last - first + 1)
    /\ SubSeq(after, 1, first) = SubSeq(before, 1, first)
    /\ SubSeq(after, last + 2, Len(after)) = SubSeq(before, first + 1, Len(before))

\* list after is list before without its rows first..last
RemovedRows(before, after, first, last) ==
    /\ 0 <= first /\ first <= last /\ last < Len(before)
    /\ after = SubSeq(before, 1, first) \o SubSeq(before, last + 2, Len(before))

\* the begin notifications of out that are about rows of the root
RootBegins(out) ==
    SelectSeq(out, LAMBDA e : e.t \in {"beginInsertRows", "beginRemoveRows"}
                                /\ e.idx = QModelIndex)

\* C16: over addRootItem, removeRootItem, children-loaded and
\* children-unloaded, structural notifications come in matching pairs (every
\* begin is followed by its end before any other begin), and the root list
\* changes only between a begin and its end, by the rows the begin announces.
C16_PairedAndAnnounced ==
    [][call'.name \in {"addRootItem", "removeRootItem",
                       "itemChildsLoaded", "itemChildsUnloaded"} =>
        /\ Paired(emitted')
        /\ LET b == RootBegins(emitted')
           IN IF b = <<>> THEN m_treeItems' = m_treeItems
              ELSE /\ Len(b) = 1
                   /\ IF b[1].t = "beginInsertRows"
                      THEN InsertedRows(m_treeItems, m_treeItems', b[1].first, b[1].last)
                      ELSE RemovedRows(m_treeItems, m_treeItems', b[1].first, b[1].last)]_vars

\* C17: every begin-insert and begin-remove notification emitted carries a
\* well-formed row range, 0 <= first <= last, also when children-loaded or
\* children-unloaded is handled for a node that has no children.
C17_RangesWellFormed ==
    \A i \in 1..Len(emitted) :
        emitted[i].t \in {"beginInsertRows", "beginRemoveRows"} =>
            0 <= emitted[i].first /\ emitted[i].first <= emitted[i].last

\* C19: every valid index handed to the consumer, returned by index() or
\* parent() or carried by a data-changed, begin-insert/begin-remove or expand
\* notification, refers to a node that has a registry entry at that moment.
\* The registry only grows while a call runs, so a node without entry after
\* the call had none when its index was handed out.
C19_HandedIndexesRegistered ==
    /\ \A i \in 1..Len(emitted) :
         isValid(emitted[i].idx) => emitted[i].idx.node \in m_rawPointers
    /\ \A p \in Indexes, r \in 0..MaxTreeRoot :
         LET i == index(r, 0, p, Now, m_rawPointers)
             pr == parent(p, Now, m_rawPointers)
         IN /\ isValid(i.idx) => i.idx.node \in i.reg
            /\ isValid(pr.idx) => pr.idx.node \in pr.reg

(***************************************************************************)
(* Properties of the tree under a view that asks index by index (SpecView). *)
(***************************************************************************)

\* the index the last setExpanded/setCollapsed call was made with
markedIndex(n) == IF n = NULL THEN QModelIndex ELSE createIndex(row(n, srow), 0, n)

C18_RestoreStaysInSubtree ==
    [][LoadedDatabase(TRUE) =>
        ExpandedFrom(emitted', 1) \subseteq Subtree(call'.node, childs')]_vars

====
